---- MODULE Spec2Model ----
(***************************************************************************)
(* Model of src/lib/tokenlist.ts: the token-list resolution strategies     *)
(* (queryJsonFiles and the bundled static snapshot), TokenListProvider and *)
(* TokenListContainer.                                                     *)
(*                                                                         *)
(* JavaScript arrays are objects with identity, so every array lives in    *)
(* `heap` and is held by reference; a reference is an index of `heap`.     *)
(***************************************************************************)
EXTENDS Integers, Sequences, FiniteSets, TLC

\* ------------------------------------------------------------------ bounds
\* Most source URLs a strategy's `repositories` holds.
MaxFiles == 2
\* Longest list a TokenListContainer is constructed from.
MaxLen == 2
\* Most containers alive at once (the constructed one and those derived).
MaxContainers == 2
\* Most containers derived from the one a Provider.resolve call returned.
MaxDerived == 2

\* ------------------------------------------------------------------ values
\* enum ENV
MainnetBeta == 101
Testnet == 102
Devnet == 103

\* An optional array field (TokenInfo.tags, TokenList.tokens): absent, or an array.
AbsentField == [present |-> FALSE, list |-> <<>>]
ArrayField(l) == [present |-> TRUE, list |-> l]

\* interface TokenInfo, with the fields the code reads.
TokenInfo(c, a, t) == [chainId |-> c, address |-> a, tags |-> t]

TokenX == TokenInfo(MainnetBeta, "X", ArrayField(<<"foo">>))
TokenY == TokenInfo(Testnet, "Y", AbsentField)
TokenZ == TokenInfo(Devnet, "Z", ArrayField(<<>>))
TokenW == TokenInfo(MainnetBeta, "W", ArrayField(<<"bar", "foo">>))

\* The records containers are built from.
TokenPool == {TokenX, TokenY, TokenZ, TokenW}

\* All sequences over S of length at most n.
SeqsUpTo(S, n) == UNION {[1..k -> S] : k \in 0..n}

NoRef == 0

\* A call without the argument.
Undefined == "undefined"

\* enum Strategy
Strategies == {"GitHub", "Static", "Solana", "CDN"}
NonStatic == Strategies \ {"Static"}

\* The k-th source URL of strategy s (k = 1 is the URL the code configures).
URL(s, k) == <<s, k>>

\* What a GET can answer with: a body that is no JSON, the JSON text `null`,
\* or a JSON value whose `tokens` member is absent or an array of records.
\* (A JSON number, string or array reads like an object without `tokens`.)
Bodies ==
  {[kind |-> "garbage", tokens |-> AbsentField],
   [kind |-> "null", tokens |-> AbsentField],
   [kind |-> "document", tokens |-> AbsentField],
   [kind |-> "document", tokens |-> ArrayField(<<TokenX>>)],
   [kind |-> "document", tokens |-> ArrayField(<<TokenY, TokenX>>)]}

NoBody == [kind |-> "none", tokens |-> AbsentField]

\* The bundled solana.tokenlist.json: its `tokens` member is absent or an array.
SnapshotTokens == {AbsentField, ArrayField(<<TokenZ>>)}

VARIABLES
  tokenlist,     \* the imported snapshot document: [tokens |-> ref or NoRef]
  heap,          \* the arrays: ref -> sequence of TokenInfo
  repositories,  \* strategy -> its source URLs
  pc,            \* Provider.resolve: "idle", "awaiting", "returned", "rejected"
  strategy,      \* the strategy of the call in progress
  arg,           \* the argument Provider.resolve was called with
  prev,          \* what the previous, completed Provider.resolve call did
  tasks,         \* queryJsonFiles: one async task per source URL
  settled,       \* indices of the tasks in the order they completed
  requests,      \* the GETs issued since the call started, in order
  infoLog,       \* number of console.info notes emitted since the call started
  result,        \* ref of the array the strategy's resolve() produced
  containers,    \* the TokenListContainers: [tokenList |-> ref]
  last           \* the last container operation and its outcome

vars == <<tokenlist, heap, repositories, pc, strategy, arg, prev, tasks,
          settled, requests, infoLog, result, containers, last>>

resolveVars == <<repositories, pc, strategy, arg, prev, tasks, settled,
                 requests, infoLog, result>>

\* ------------------------------------------------------------------ helpers
\* JS value passed as chainId: a number, or a function object.
Number(n) == [type |-> "number", n |-> n]
FunctionObject == [type |-> "function", n |-> 0]

NoError == [slug |-> "", keys |-> <<>>]
\* A container call: the method, the receiver, the argument, and the outcome:
\* `ret` the container returned, `list` the array getList returned, or the
\* error thrown.
NoOp == [op |-> "none", recv |-> 0, tag |-> "", chainId |-> Number(0),
         slug |-> "", threw |-> FALSE, ret |-> 0, list |-> NoRef,
         error |-> NoError]

\* No Provider.resolve call has completed yet.
NoCall == [pc |-> "none", strategy |-> "none", arg |-> "none", tasks |-> <<>>,
           list |-> <<>>, notes |-> 0, requests |-> <<>>]

\* The snapshot document as a value.
SnapshotDoc ==
  [kind |-> "document",
   tokens |-> IF tokenlist.tokens = NoRef THEN AbsentField
              ELSE ArrayField(heap[tokenlist.tokens])]

\* import tokenlist from solana.tokenlist.json
LoadSnapshot(field) ==
  /\ tokenlist = [tokens |-> IF field.present THEN 1 ELSE NoRef]
  /\ heap = IF field.present THEN <<field.list>> ELSE <<>>

\* ------------------------------------------------------------------ queryJsonFiles
\* response.json(): rejects on a body that is no JSON, else the parsed value.
JsonRejects(body) == body.kind = "garbage"
ParseJson(body) == [kind |-> body.kind, tokens |-> body.tokens]

\* What the async task of source i returned: the parsed json, or `tokenlist`
\* from the catch block.
TaskValue(i) ==
  IF tasks[i].ret = "tokenlist" THEN SnapshotDoc ELSE ParseJson(tasks[i].body)

\* Mutant of PromiseAll: the values in the order the tasks completed.
PromiseAllByCompletion == [i \in 1..Len(tasks) |-> TaskValue(settled[i])]

\* Promise.all: the values in the order of the promises, not of completion.
PromiseAll == [i \in 1..Len(tasks) |-> TaskValue(i)]

\* Mutant of TokensOrEmpty: a document without tokens gives the snapshot's.
TokensOrFallback(doc) ==
  IF doc.tokens.present THEN doc.tokens.list
  ELSE IF tokenlist.tokens = NoRef THEN <<>> ELSE heap[tokenlist.tokens]

\* tokenlist.tokens || []
TokensOrEmpty(doc) == IF doc.tokens.present THEN doc.tokens.list ELSE <<>>

\* reading .tokens of null throws a TypeError
ReadThrows(doc) == doc.kind = "null"

\* .reduce((acc, arr) => acc.concat(arr), [])
RECURSIVE Reduce(_)
Reduce(arrs) ==
  IF arrs = <<>> THEN <<>>
  ELSE Reduce(SubSeq(arrs, 1, Len(arrs) - 1)) \o arrs[Len(arrs)]

FetchTask(url) ==
  [pc |-> "fetch", url |-> url, status |-> "none", body |-> NoBody,
   ret |-> "pending", err |-> "none"]

\* Mutant of Catch: the error is swallowed and nothing is substituted.
CatchReturnsNothing(t, cause) ==
  [t EXCEPT !.pc = "done", !.ret = "json", !.err = cause]

\* The catch block: the note, and `return tokenlist`.
Catch(t, cause) == [t EXCEPT !.pc = "done", !.ret = "tokenlist", !.err = cause]

\* Mutant of StrategyOf: the default is the first registered strategy.
StrategyOfDefaultGitHub(a) == IF a = Undefined THEN "GitHub" ELSE a

\* strategy: Strategy = Strategy.CDN, the default parameter of Provider.resolve
StrategyOf(a) == IF a = Undefined THEN "CDN" ELSE a

\* Mutant of resolve: the tasks run one after the other, so only the first
\* GET is issued when the call starts.
resolveSequential(a) ==
  /\ pc = "idle"
  /\ StrategyOf(a) \in NonStatic
  /\ arg' = a
  /\ strategy' = StrategyOf(a)
  /\ LET files == repositories[StrategyOf(a)] IN
       /\ tasks' = [i \in 1..Len(files) |-> FetchTask(files[i])]
       /\ requests' = requests \o <<files[1]>>
  /\ pc' = "awaiting"
  /\ UNCHANGED prev
  /\ UNCHANGED <<tokenlist, heap, repositories, settled, infoLog, result,
                 containers, last>>

\* Mutant of resolve: the list of the previous call of the same strategy is
\* kept and returned without a request.
resolveCached(a) ==
  /\ pc = "idle"
  /\ StrategyOf(a) \in NonStatic
  /\ arg' = a
  /\ strategy' = StrategyOf(a)
  /\ IF prev.pc = "returned" /\ prev.strategy = StrategyOf(a)
       THEN /\ heap' = Append(heap, prev.list)
            /\ result' = Len(heap) + 1
            /\ containers' = <<[tokenList |-> Len(heap) + 1]>>
            /\ pc' = "returned"
            /\ UNCHANGED <<tasks, requests>>
       ELSE /\ LET files == repositories[StrategyOf(a)] IN
                 /\ tasks' = [i \in 1..Len(files) |-> FetchTask(files[i])]
                 /\ requests' = requests \o files
            /\ pc' = "awaiting"
            /\ UNCHANGED <<heap, result, containers>>
  /\ UNCHANGED prev
  /\ UNCHANGED <<tokenlist, repositories, settled, infoLog, last>>

\* Provider.resolve(a) for a strategy that fetches: queryJsonFiles(repositories)
\* runs files.map, which starts every async task up to its first await, so
\* every GET is issued, in declaration order, before anything is awaited.
resolve(a) ==
  /\ pc = "idle"
  /\ StrategyOf(a) \in NonStatic
  /\ arg' = a
  /\ strategy' = StrategyOf(a)
  /\ LET files == repositories[StrategyOf(a)] IN
       /\ tasks' = [i \in 1..Len(files) |-> FetchTask(files[i])]
       /\ requests' = requests \o files
  /\ pc' = "awaiting"
  /\ UNCHANGED prev
  /\ UNCHANGED <<tokenlist, heap, repositories, settled, infoLog, result,
                 containers, last>>

\* await fetch(repo) fulfils with a response (any status, any body).
FetchFulfil(i, ok, body) ==
  /\ pc = "awaiting"
  /\ tasks[i].pc = "fetch"
  /\ tasks' = [tasks EXCEPT ![i] = [@ EXCEPT !.pc = "json",
                 !.status = IF ok THEN "ok" ELSE "notok", !.body = body]]
  /\ UNCHANGED <<tokenlist, heap, repositories, pc, strategy, settled,
                 requests, infoLog, result, containers, last>>
  /\ UNCHANGED <<arg, prev>>

\* await fetch(repo) rejects (transport error): the catch block runs.
FetchReject(i) ==
  /\ pc = "awaiting"
  /\ tasks[i].pc = "fetch"
  /\ tasks' = [tasks EXCEPT ![i] = Catch(@, "fetch")]
  /\ infoLog' = infoLog + 1
  /\ settled' = Append(settled, i)
  /\ UNCHANGED <<tokenlist, heap, repositories, pc, strategy, requests,
                 result, containers, last>>
  /\ UNCHANGED <<arg, prev>>

\* await response.json() fulfils: the task returns the parsed value.
JsonFulfil(i) ==
  /\ pc = "awaiting"
  /\ tasks[i].pc = "json"
  /\ ~JsonRejects(tasks[i].body)
  /\ tasks' = [tasks EXCEPT ![i] = [@ EXCEPT !.pc = "done", !.ret = "json"]]
  /\ settled' = Append(settled, i)
  /\ UNCHANGED <<tokenlist, heap, repositories, pc, strategy, requests,
                 infoLog, result, containers, last>>
  /\ UNCHANGED <<arg, prev>>

\* Mutant of JsonReject: the catch block substitutes without a note.
JsonRejectSilent(i) ==
  /\ pc = "awaiting"
  /\ tasks[i].pc = "json"
  /\ JsonRejects(tasks[i].body)
  /\ tasks' = [tasks EXCEPT ![i] = Catch(@, "json")]
  /\ settled' = Append(settled, i)
  /\ UNCHANGED <<tokenlist, heap, repositories, pc, strategy, requests,
                 infoLog, result, containers, last>>
  /\ UNCHANGED <<arg, prev>>

\* await response.json() rejects: the catch block runs.
JsonReject(i) ==
  /\ pc = "awaiting"
  /\ tasks[i].pc = "json"
  /\ JsonRejects(tasks[i].body)
  /\ tasks' = [tasks EXCEPT ![i] = Catch(@, "json")]
  /\ infoLog' = infoLog + 1
  /\ settled' = Append(settled, i)
  /\ UNCHANGED <<tokenlist, heap, repositories, pc, strategy, requests,
                 result, containers, last>>
  /\ UNCHANGED <<arg, prev>>

\* Mutant of AllDone: the first task to settle settles the whole (a race).
AnyDone == \E i \in 1..Len(tasks) : tasks[i].pc = "done"

AllDone == \A i \in 1..Len(tasks) : tasks[i].pc = "done"

\* Promise.all fulfilled and no response is null: map and reduce build a new
\* array, queryJsonFiles returns it, Provider.resolve wraps it in a container.
QueryReturn ==
  /\ pc = "awaiting"
  /\ AllDone
  /\ \A i \in 1..Len(tasks) : ~ReadThrows(PromiseAll[i])
  /\ heap' = Append(heap,
                Reduce([i \in 1..Len(tasks) |-> TokensOrEmpty(PromiseAll[i])]))
  /\ result' = Len(heap) + 1
  /\ containers' = <<[tokenList |-> Len(heap) + 1]>>
  /\ pc' = "returned"
  /\ UNCHANGED <<tokenlist, repositories, strategy, tasks, settled, requests,
                 infoLog, last>>
  /\ UNCHANGED <<arg, prev>>

\* Promise.all fulfilled and some response is null: the map callback throws,
\* the promise of queryJsonFiles rejects and so does Provider.resolve.
QueryThrow ==
  /\ pc = "awaiting"
  /\ AllDone
  /\ \E i \in 1..Len(tasks) : ReadThrows(PromiseAll[i])
  /\ pc' = "rejected"
  /\ UNCHANGED <<tokenlist, heap, repositories, strategy, tasks, settled,
                 requests, infoLog, result, containers, last>>
  /\ UNCHANGED <<arg, prev>>

\* Mutant of resolveStatic: a new empty array whatever the snapshot holds.
resolveStaticEmpty ==
  /\ pc = "idle"
  /\ arg' = "Static"
  /\ strategy' = "Static"
  /\ result' = Len(heap) + 1
  /\ heap' = Append(heap, <<>>)
  /\ containers' = <<[tokenList |-> Len(heap) + 1]>>
  /\ pc' = "returned"
  /\ UNCHANGED <<tokenlist, repositories, prev, tasks, settled, requests,
                 infoLog, last>>

\* Provider.resolve(Static): StaticTokenListResolutionStrategy.resolve returns
\* tokenlist.tokens itself, or a new empty array when the member is absent.
resolveStatic ==
  /\ pc = "idle"
  /\ arg' = "Static"
  /\ strategy' = "Static"
  /\ UNCHANGED prev
  /\ IF tokenlist.tokens # NoRef
       THEN /\ result' = tokenlist.tokens
            /\ heap' = heap
       ELSE /\ result' = Len(heap) + 1
            /\ heap' = Append(heap, <<>>)
  /\ containers' = <<[tokenList |-> result']>>
  /\ pc' = "returned"
  /\ UNCHANGED <<tokenlist, repositories, tasks, settled, requests, infoLog,
                 last>>

\* TokenListProvider.strategies, an object literal: a key it does not have
\* reads as undefined, a key of Object.prototype as an inherited function.
StrategiesLookup(a) ==
  IF a \in Strategies THEN "strategy"
  ELSE IF a \in {"toString", "constructor", "hasOwnProperty", "valueOf"}
    THEN "function"
  ELSE "undefined"

\* x.resolve() throws a TypeError: x is undefined, or x has no resolve member.
ResolveCallThrows(a) == StrategiesLookup(a) # "strategy"

\* Mutant of resolveUnknown: an unknown identifier selects the default.
resolveUnknownDefaults(a) ==
  /\ pc = "idle"
  /\ ResolveCallThrows(StrategyOf(a))
  /\ arg' = a
  /\ strategy' = "CDN"
  /\ LET files == repositories["CDN"] IN
       /\ tasks' = [i \in 1..Len(files) |-> FetchTask(files[i])]
       /\ requests' = requests \o files
  /\ pc' = "awaiting"
  /\ UNCHANGED prev
  /\ UNCHANGED <<tokenlist, heap, repositories, settled, infoLog, result,
                 containers, last>>

\* Provider.resolve(a) with an identifier that is no Strategy: the lookup is
\* not checked, the call of .resolve() on what it gives throws, and the
\* promise of the async function rejects before any strategy has run.
resolveUnknown(a) ==
  /\ pc = "idle"
  /\ ResolveCallThrows(StrategyOf(a))
  /\ arg' = a
  /\ strategy' = "none"
  /\ pc' = "rejected"
  /\ UNCHANGED prev
  /\ UNCHANGED <<tokenlist, heap, repositories, tasks, settled, requests,
                 infoLog, result, containers, last>>

\* Identifiers outside the Strategy enum.
UnknownIds == {"Bogus", "toString"}

Init ==
  /\ \E field \in SnapshotTokens : LoadSnapshot(field)
  /\ \E n \in 1..MaxFiles :
       repositories = [s \in NonStatic |-> [k \in 1..n |-> URL(s, k)]]
  /\ pc = "idle"
  /\ strategy = "none"
  /\ arg = "none"
  /\ prev = NoCall
  /\ tasks = <<>>
  /\ settled = <<>>
  /\ requests = <<>>
  /\ infoLog = 0
  /\ result = NoRef
  /\ containers = <<>>
  /\ last = NoOp

Next ==
  \/ \E a \in NonStatic \cup {Undefined} : resolve(a)
  \/ resolveStatic
  \/ \E a \in UnknownIds : resolveUnknown(a)
  \/ \E i \in 1..Len(tasks), ok \in BOOLEAN, body \in Bodies :
       FetchFulfil(i, ok, body)
  \/ \E i \in 1..Len(tasks) : FetchReject(i)
  \/ \E i \in 1..Len(tasks) : JsonFulfil(i)
  \/ \E i \in 1..Len(tasks) : JsonReject(i)
  \/ QueryReturn
  \/ QueryThrow

Spec == Init /\ [][Next]_vars

\* Some task of the call can settle a fetch or a parse.
Settle ==
  \/ \E i \in 1..Len(tasks), ok \in BOOLEAN, body \in Bodies :
       FetchFulfil(i, ok, body)
  \/ \E i \in 1..Len(tasks) : FetchReject(i)
  \/ \E i \in 1..Len(tasks) : JsonFulfil(i)
  \/ \E i \in 1..Len(tasks) : JsonReject(i)

\* Every fetch and every parse settles, and the continuation of a settled
\* promise runs: the event loop leaves no ready job waiting forever.
LiveSpec ==
  /\ Init
  /\ [][Next]_vars
  /\ WF_vars(Settle)
  /\ WF_vars(QueryReturn)
  /\ WF_vars(QueryThrow)

\* ------------------------------------------------------------------ TokenListContainer
\* CLUSTER_SLUGS, an object literal: its own keys, in insertion order.
ClusterSlugKeys == <<"mainnet-beta", "testnet", "devnet">>
\* Mutant of CLUSTER_SLUGS: testnet and devnet exchanged.
ClusterSlugsSwapped ==
  ("mainnet-beta" :> MainnetBeta) @@ ("testnet" :> Devnet) @@
  ("devnet" :> Testnet)

CLUSTER_SLUGS ==
  ("mainnet-beta" :> MainnetBeta) @@ ("testnet" :> Testnet) @@
  ("devnet" :> Devnet)

\* Property names every object literal inherits from Object.prototype; each
\* names a function object.
ObjectPrototypeKeys ==
  {"constructor", "toString", "valueOf", "hasOwnProperty", "toLocaleString"}

\* slug in CLUSTER_SLUGS: own or inherited property.
In(slug) == slug \in DOMAIN CLUSTER_SLUGS \/ slug \in ObjectPrototypeKeys

\* CLUSTER_SLUGS[slug]
Lookup(slug) ==
  IF slug \in DOMAIN CLUSTER_SLUGS THEN Number(CLUSTER_SLUGS[slug])
  ELSE FunctionObject

\* item.chainId === chainId
StrictEquals(n, v) == v.type = "number" /\ v.n = n

\* (item.tags || [])
TagsOrEmpty(item) == IF item.tags.present THEN item.tags.list ELSE <<>>

\* Mutant of Includes: only the first element is compared.
IncludesFirst(arr, x) == Len(arr) > 0 /\ arr[1] = x

\* Array.prototype.includes
Includes(arr, x) == \E i \in 1..Len(arr) : arr[i] = x

\* Mutant of filterByTagKeeps: a record's tag list must be the tag alone.
filterByTagOnlyTag(item, tag) == TagsOrEmpty(item) = <<tag>>

\* Mutant of excludeByTagKeeps: a record without tags is dropped.
excludeByTagDropsUntagged(item, tag) ==
  item.tags.present /\ ~Includes(item.tags.list, tag)

\* Mutant of excludeByChainIdKeeps: the comparison is not negated.
excludeByChainIdKeepsEqual(item, v) == StrictEquals(item.chainId, v)

\* The four filter callbacks.
filterByTagKeeps(item, tag) == Includes(TagsOrEmpty(item), tag)
excludeByTagKeeps(item, tag) == ~Includes(TagsOrEmpty(item), tag)
filterByChainIdKeeps(item, v) == StrictEquals(item.chainId, v)
excludeByChainIdKeeps(item, v) == ~StrictEquals(item.chainId, v)

\* Mutant of TagKept: only the first record that passes is kept (find).
TagKeptFirst(list, tag) ==
  LET kept == SelectSeq(list, LAMBDA item : Includes(TagsOrEmpty(item), tag))
  IN  IF kept = <<>> THEN <<>> ELSE <<kept[1]>>

\* Mutant of ChainIdKept: the records that pass, last first.
ChainIdKeptReversed(list, v) ==
  LET kept == SelectSeq(list, LAMBDA item : StrictEquals(item.chainId, v))
  IN  [i \in 1..Len(kept) |-> kept[Len(kept) + 1 - i]]

\* this.tokenList.filter(callback): Array.prototype.filter gives a new array
\* of the elements that pass, in order.
TagKept(list, tag) ==
  SelectSeq(list, LAMBDA item : filterByTagKeeps(item, tag))
TagExcluded(list, tag) ==
  SelectSeq(list, LAMBDA item : excludeByTagKeeps(item, tag))
ChainIdKept(list, v) ==
  SelectSeq(list, LAMBDA item : filterByChainIdKeeps(item, v))
ChainIdExcluded(list, v) ==
  SelectSeq(list, LAMBDA item : excludeByChainIdKeeps(item, v))

ListOf(c) == heap[containers[c].tokenList]

\* Mutant of NewContainer: when every record is kept, the receiver's array is
\* handed to the new container instead of a copy.
NewContainerShared(list, op) ==
  /\ heap' = IF list = heap[containers[op.recv].tokenList] THEN heap
             ELSE Append(heap, list)
  /\ containers' = Append(containers,
       [tokenList |-> IF list = heap[containers[op.recv].tokenList]
                        THEN containers[op.recv].tokenList
                        ELSE Len(heap) + 1])
  /\ last' = [op EXCEPT !.ret = Len(containers) + 1]
  /\ UNCHANGED tokenlist
  /\ UNCHANGED resolveVars

\* Mutant of NewContainer: the receiver's array is filtered in place.
NewContainerInPlace(list, op) ==
  /\ heap' = Append([heap EXCEPT ![containers[op.recv].tokenList] = list],
                    list)
  /\ containers' = Append(containers, [tokenList |-> Len(heap) + 1])
  /\ last' = [op EXCEPT !.ret = Len(containers) + 1]
  /\ UNCHANGED tokenlist
  /\ UNCHANGED resolveVars

\* new TokenListContainer(list): the filtered array is new, and the new
\* container holds it.
NewContainer(list, op) ==
  /\ heap' = Append(heap, list)
  /\ containers' = Append(containers, [tokenList |-> Len(heap) + 1])
  /\ last' = [op EXCEPT !.ret = Len(containers) + 1]
  /\ UNCHANGED tokenlist
  /\ UNCHANGED resolveVars

filterByTag(c, tag) ==
  NewContainer(TagKept(ListOf(c), tag),
               [NoOp EXCEPT !.op = "filterByTag", !.recv = c, !.tag = tag])

excludeByTag(c, tag) ==
  NewContainer(TagExcluded(ListOf(c), tag),
               [NoOp EXCEPT !.op = "excludeByTag", !.recv = c, !.tag = tag])

filterByChainId(c, n) ==
  NewContainer(ChainIdKept(ListOf(c), Number(n)),
               [NoOp EXCEPT !.op = "filterByChainId", !.recv = c,
                            !.chainId = Number(n)])

excludeByChainId(c, n) ==
  NewContainer(ChainIdExcluded(ListOf(c), Number(n)),
               [NoOp EXCEPT !.op = "excludeByChainId", !.recv = c,
                            !.chainId = Number(n)])

\* The Error thrown for a slug that is not `in` CLUSTER_SLUGS: its message
\* carries the slug and Object.keys(CLUSTER_SLUGS).
UnknownSlug(slug) == [slug |-> slug, keys |-> ClusterSlugKeys]

filterByClusterSlug(c, slug) ==
  IF In(slug)
    THEN NewContainer(ChainIdKept(ListOf(c), Lookup(slug)),
                      [NoOp EXCEPT !.op = "filterByClusterSlug", !.recv = c,
                                   !.slug = slug, !.chainId = Lookup(slug)])
    ELSE /\ last' = [NoOp EXCEPT !.op = "filterByClusterSlug", !.recv = c,
                                 !.slug = slug, !.threw = TRUE,
                                 !.error = UnknownSlug(slug)]
         /\ UNCHANGED <<tokenlist, heap, containers>>
         /\ UNCHANGED resolveVars

\* getList(): the container's own array.
getList(c) ==
  /\ last' = [NoOp EXCEPT !.op = "getList", !.recv = c,
                          !.list = containers[c].tokenList]
  /\ UNCHANGED <<tokenlist, heap, containers>>
  /\ UNCHANGED resolveVars

\* Inputs of the container operations.
TagInputs == {"foo", "bar"}
ChainIdInputs == {MainnetBeta, Testnet, Devnet}
SlugInputs == {"mainnet-beta", "testnet", "devnet", "unknown-slug",
               "toString", "constructor"}

\* A caller builds a container from a list of its own.
ContainerInit ==
  /\ tokenlist = [tokens |-> 1]
  /\ repositories = [s \in NonStatic |-> <<URL(s, 1)>>]
  /\ pc = "idle"
  /\ strategy = "none"
  /\ arg = "none"
  /\ prev = NoCall
  /\ tasks = <<>>
  /\ settled = <<>>
  /\ requests = <<>>
  /\ infoLog = 0
  /\ result = NoRef
  /\ \E list \in SeqsUpTo(TokenPool, MaxLen) :
       /\ heap = <<<<TokenZ>>, list>>
       /\ containers = <<[tokenList |-> 2]>>
  /\ last = NoOp

\* Room for one more container.
Room == Len(containers) < MaxContainers

ContainerNext ==
  \/ Room /\ \E c \in 1..Len(containers), tag \in TagInputs :
               filterByTag(c, tag)
  \/ Room /\ \E c \in 1..Len(containers), tag \in TagInputs :
               excludeByTag(c, tag)
  \/ Room /\ \E c \in 1..Len(containers), n \in ChainIdInputs :
               filterByChainId(c, n)
  \/ Room /\ \E c \in 1..Len(containers), n \in ChainIdInputs :
               excludeByChainId(c, n)
  \/ \E c \in 1..Len(containers), slug \in SlugInputs :
       /\ In(slug) => Room
       /\ filterByClusterSlug(c, slug)
  \/ \E c \in 1..Len(containers) : getList(c)

ContainerSpec == ContainerInit /\ [][ContainerNext]_vars

\* ------------------------------------------------------------------ caller and arrays
\* In-place changes of an array: adding, removing or replacing an element.
Mutations ==
  {[kind |-> "push", x |-> TokenY], [kind |-> "pop", x |-> TokenY],
   [kind |-> "replace", x |-> TokenW]}

Mutable(arr, m) ==
  CASE m.kind = "push" -> Len(arr) < MaxLen
    [] OTHER -> Len(arr) > 0

Mutated(arr, m) ==
  CASE m.kind = "push" -> Append(arr, m.x)
    [] m.kind = "pop" -> SubSeq(arr, 1, Len(arr) - 1)
    [] OTHER -> [arr EXCEPT ![1] = m.x]

\* The caller changes, in place, the array it passed to the constructor: the
\* constructor kept the reference (a parameter property), not a copy.
mutateSeq(m) ==
  /\ containers # <<>>
  /\ LET ref == containers[1].tokenList IN
       /\ Mutable(heap[ref], m)
       /\ heap' = [heap EXCEPT ![ref] = Mutated(@, m)]
       /\ last' = [NoOp EXCEPT !.op = "mutateSeq", !.list = ref]
  /\ UNCHANGED <<tokenlist, containers>>
  /\ UNCHANGED resolveVars

\* The caller changes, in place, the array getList() returned to it.
mutateReturned(m) ==
  /\ last.op \in {"getList", "mutateReturned"}
  /\ Mutable(heap[last.list], m)
  /\ heap' = [heap EXCEPT ![last.list] = Mutated(@, m)]
  /\ last' = [NoOp EXCEPT !.op = "mutateReturned", !.list = last.list]
  /\ UNCHANGED <<tokenlist, containers>>
  /\ UNCHANGED resolveVars

MutableNext ==
  \/ ContainerNext
  \/ \E m \in Mutations : mutateSeq(m)
  \/ \E m \in Mutations : mutateReturned(m)

\* A container, its filters, and a caller that changes arrays in place.
MutableSpec == ContainerInit /\ [][MutableNext]_vars

\* ------------------------------------------------------------------ a sequence of calls
\* The promise of Provider.resolve has settled and the caller is done with
\* what it got: the next call can start. What the call did is kept in `prev`;
\* the arrays only the finished call reached are gone.
NextCall ==
  /\ pc \in {"returned", "rejected"}
  /\ prev' = [pc |-> pc, strategy |-> strategy, arg |-> arg, tasks |-> tasks,
              list |-> IF pc = "returned" THEN heap[result] ELSE <<>>,
              notes |-> infoLog, requests |-> requests]
  /\ heap' = IF tokenlist.tokens = NoRef THEN <<>>
             ELSE <<heap[tokenlist.tokens]>>
  /\ pc' = "idle"
  /\ strategy' = "none"
  /\ arg' = "none"
  /\ tasks' = <<>>
  /\ settled' = <<>>
  /\ requests' = <<>>
  /\ infoLog' = 0
  /\ result' = NoRef
  /\ containers' = <<>>
  /\ last' = NoOp
  /\ UNCHANGED <<tokenlist, repositories>>

\* The strategies as the code configures them: one source URL each.
ProviderInit ==
  /\ \E field \in SnapshotTokens : LoadSnapshot(field)
  /\ repositories = [s \in NonStatic |-> <<URL(s, 1)>>]
  /\ pc = "idle"
  /\ strategy = "none"
  /\ arg = "none"
  /\ prev = NoCall
  /\ tasks = <<>>
  /\ settled = <<>>
  /\ requests = <<>>
  /\ infoLog = 0
  /\ result = NoRef
  /\ containers = <<>>
  /\ last = NoOp

\* Inputs of a sequence of calls.
ProviderArgs == {Undefined, "GitHub"}
ProviderBodies ==
  {[kind |-> "garbage", tokens |-> AbsentField],
   [kind |-> "null", tokens |-> AbsentField],
   [kind |-> "document", tokens |-> AbsentField],
   [kind |-> "document", tokens |-> ArrayField(<<TokenZ>>)],
   [kind |-> "document", tokens |-> ArrayField(<<TokenY, TokenX>>)]}

\* The container the call returned, or the newest one.
Receivers == {c \in 1..Len(containers) : c = 1 \/ c = Len(containers)}
MoreRoom == Len(containers) <= MaxDerived

ProviderNext ==
  \/ \E a \in ProviderArgs : resolve(a)
  \/ resolveStatic
  \/ \E i \in 1..Len(tasks), body \in ProviderBodies :
       \E ok \in BOOLEAN : FetchFulfil(i, ok, body)
  \/ \E i \in 1..Len(tasks) : FetchReject(i)
  \/ \E i \in 1..Len(tasks) : JsonFulfil(i)
  \/ \E i \in 1..Len(tasks) : JsonReject(i)
  \/ QueryReturn
  \/ QueryThrow
  \/ NextCall
  \/ MoreRoom /\ \E c \in Receivers : filterByTag(c, "foo")
  \/ MoreRoom /\ \E c \in Receivers : excludeByTag(c, "foo")
  \/ MoreRoom /\ \E c \in Receivers : filterByChainId(c, MainnetBeta)
  \/ MoreRoom /\ \E c \in Receivers : excludeByChainId(c, MainnetBeta)
  \/ \E c \in Receivers, slug \in {"mainnet-beta", "unknown-slug"} :
       /\ In(slug) => MoreRoom
       /\ filterByClusterSlug(c, slug)
  \/ \E c \in 1..Len(containers) : getList(c)

\* Calls of Provider.resolve one after the other, each followed by the
\* caller's filters on the container it got.
ProviderSpec == ProviderInit /\ [][ProviderNext]_vars

\* ------------------------------------------------------------------ properties
\* The bundled fallback's tokens list, empty if the member is absent.
FallbackTokens ==
  IF tokenlist.tokens = NoRef THEN <<>> ELSE heap[tokenlist.tokens]

\* The tokens of the document a source answered with, empty if it has none.
TokensOf(body) == IF body.tokens.present THEN body.tokens.list ELSE <<>>

\* Source i failed: its request or the parse of its body.
Failed(i) == tasks[i].err \in {"fetch", "json"}

\* What source i is to contribute: its document's tokens if fetch and parse
\* succeeded, the fallback's tokens if it failed.
Contribution(i) ==
  IF Failed(i) THEN FallbackTokens ELSE TokensOf(tasks[i].body)

RECURSIVE ContributionsFrom(_)
ContributionsFrom(i) ==
  IF i > Len(tasks) THEN <<>>
  ELSE Contribution(i) \o ContributionsFrom(i + 1)

Range(list) == {list[i] : i \in 1..Len(list)}
Count(list, r) == Cardinality({i \in 1..Len(list) : list[i] = r})

\* C1: resolve() of a non-static strategy never rejects, whatever each
\* source's fetch gives (transport error, non-OK status, unparseable body, or
\* a body that parses but is no Record Collection document).
C1_NeverRejects == strategy \in NonStatic => pc # "rejected"

\* C2: with exactly one source whose request fails with a transport error or
\* whose body fails to parse, resolve() does not raise and what it returns
\* equals the bundled fallback's tokens list (empty if that member is absent).
C2_FallbackSubstitution ==
  (strategy \in NonStatic /\ Len(tasks) = 1 /\ Failed(1))
    => /\ pc # "rejected"
       /\ pc = "returned" => heap[result] = FallbackTokens

C2_Witness ==
  /\ strategy \in NonStatic
  /\ Len(tasks) = 1
  /\ tasks[1].err = "json"
  /\ pc = "returned"
  /\ heap[result] = <<TokenZ>>

\* C3: a source whose GET completes with a non-OK status contributes the
\* bundled fallback's tokens to the resolved sequence, not an empty result
\* and not the content of the error body.
C3_NonOkStatusFallsBack ==
  pc = "returned" =>
    \A i \in 1..Len(tasks) :
      tasks[i].status = "notok" => TokensOrEmpty(TaskValue(i)) = FallbackTokens

\* C4: with sources A then B, both reachable, resolve() returns A.tokens
\* followed by B.tokens whichever fetch completes first.
C4_DeclaredOrder ==
  (/\ strategy \in NonStatic
   /\ pc = "returned"
   /\ Len(tasks) = 2
   /\ \A i \in 1..2 : tasks[i].status = "ok" /\ ~Failed(i))
    => heap[result] = TokensOf(tasks[1].body) \o TokensOf(tasks[2].body)

C4_Witness ==
  /\ strategy \in NonStatic
  /\ pc = "returned"
  /\ Len(tasks) = 2
  /\ \A i \in 1..2 : tasks[i].status = "ok" /\ ~Failed(i)
  /\ settled = <<2, 1>>
  /\ TokensOf(tasks[1].body) = <<TokenX>>
  /\ TokensOf(tasks[2].body) = <<TokenY, TokenX>>
  /\ heap[result] = <<TokenX, TokenY, TokenX>>

\* C5: for any mix of per-source outcomes, resolve() returns the
\* concatenation, in declaration order and without deduplication, of each
\* source's contribution.
C5_ConcatOfContributions ==
  (strategy \in NonStatic /\ Len(tasks) >= 1 /\ AllDone /\ pc # "awaiting")
    => /\ pc = "returned"
       /\ heap[result] = ContributionsFrom(1)

\* The last operation's receiver list and returned container's list.
RecvList == ListOf(last.recv)
RetList == ListOf(last.ret)

\* C6: filterByClusterSlug(slug) fails with an error that names slug and
\* lists the recognized slugs, and returns no container, for every slug other
\* than "mainnet-beta", "testnet" and "devnet".
C6_UnknownSlugThrows ==
  (last.op = "filterByClusterSlug"
   /\ last.slug \notin {"mainnet-beta", "testnet", "devnet"})
    => /\ last.threw
       /\ last.ret = 0
       /\ last.error.slug = last.slug
       /\ last.error.keys = <<"mainnet-beta", "testnet", "devnet">>

\* C7: filterByClusterSlug("mainnet-beta"), ("testnet") and ("devnet") return
\* the same list as filterByChainId(101), (102) and (103).
C7_SlugIsChainId ==
  \A e \in {<<"mainnet-beta", 101>>, <<"testnet", 102>>, <<"devnet", 103>>} :
    (last.op = "filterByClusterSlug" /\ last.slug = e[1])
      => /\ ~last.threw
         /\ last.ret # 0
         /\ RetList = ChainIdKept(RecvList, Number(e[2]))

C7_Witness ==
  /\ last.op = "filterByClusterSlug"
  /\ last.slug = "testnet"
  /\ RecvList = <<TokenY, TokenX>>
  /\ RetList = <<TokenY>>

\* The record carries tag T in its tag set.
Tagged(r, T) == r.tags.present /\ \E j \in 1..Len(r.tags.list) : r.tags.list[j] = T

\* C8: filterByTag(T) keeps exactly the records whose tag set contains T; a
\* record whose tags are absent or empty is never kept.
C8_FilterByTagExact ==
  last.op = "filterByTag" =>
    /\ ~last.threw
    /\ \A r \in Range(RecvList) \cup Range(RetList) :
         Count(RetList, r) = IF Tagged(r, last.tag) THEN Count(RecvList, r) ELSE 0
    /\ \A r \in Range(RetList) : r.tags.present /\ r.tags.list # <<>>

C8_Witness ==
  /\ last.op = "filterByTag"
  /\ last.tag = "foo"
  /\ RecvList = <<TokenY, TokenW>>
  /\ RetList = <<TokenW>>

\* C9: excludeByTag(T) keeps exactly the records whose tag set does not
\* contain T; a record whose tags are absent or empty is always kept.
C9_ExcludeByTagExact ==
  last.op = "excludeByTag" =>
    /\ ~last.threw
    /\ \A r \in Range(RecvList) \cup Range(RetList) :
         Count(RetList, r) = IF Tagged(r, last.tag) THEN 0 ELSE Count(RecvList, r)
    /\ \A r \in Range(RecvList) :
         (~r.tags.present \/ r.tags.list = <<>>) => r \in Range(RetList)

C9_Witness ==
  /\ last.op = "excludeByTag"
  /\ last.tag = "foo"
  /\ RecvList = <<TokenY, TokenX>>
  /\ RetList = <<TokenY>>

\* The list the complementary tag operation gives on the same receiver.
Complement ==
  IF last.op = "filterByTag" THEN TagExcluded(RecvList, last.tag)
  ELSE TagKept(RecvList, last.tag)

\* C10: each record of c.getList() is in exactly one of
\* c.filterByTag(T).getList() and c.excludeByTag(T).getList(), and the
\* lengths of those two lists sum to the length of c.getList().
C10_Complementarity ==
  last.op \in {"filterByTag", "excludeByTag"} =>
    /\ \A r \in Range(RecvList) :
         (r \in Range(RetList)) # (r \in Range(Complement))
    /\ Len(RetList) + Len(Complement) = Len(RecvList)

C10_Witness ==
  /\ last.op = "excludeByTag"
  /\ last.tag = "bar"
  /\ RecvList = <<TokenW, TokenX>>
  /\ RetList = <<TokenX>>
  /\ Complement = <<TokenW>>

\* C11: filterByChainId(c) holds all and only the records whose chainId
\* equals c; excludeByChainId(c) holds all and only those whose chainId
\* differs from c.
C11_ChainFilterExact ==
  /\ last.op = "filterByChainId" =>
       /\ ~last.threw
       /\ \A r \in Range(RecvList) \cup Range(RetList) :
            Count(RetList, r) =
              IF r.chainId = last.chainId.n THEN Count(RecvList, r) ELSE 0
  /\ last.op = "excludeByChainId" =>
       /\ ~last.threw
       /\ \A r \in Range(RecvList) \cup Range(RetList) :
            Count(RetList, r) =
              IF r.chainId # last.chainId.n THEN Count(RecvList, r) ELSE 0
       /\ \A r \in Range(RetList) : r.chainId # last.chainId.n

C11_Witness ==
  /\ last.op = "excludeByChainId"
  /\ last.chainId.n = 101
  /\ RecvList = <<TokenX, TokenY>>
  /\ RetList = <<TokenY>>

FilterOps == {"filterByTag", "excludeByTag", "filterByChainId",
              "excludeByChainId", "filterByClusterSlug"}

\* The record satisfies the predicate of the last filter call.
Satisfies(r) ==
  CASE last.op = "filterByTag" -> Tagged(r, last.tag)
    [] last.op = "excludeByTag" -> ~Tagged(r, last.tag)
    [] last.op = "excludeByChainId" -> r.chainId # last.chainId.n
    [] OTHER -> last.chainId.type = "number" /\ r.chainId = last.chainId.n

\* a is b with some elements left out.
RECURSIVE IsSubsequence(_, _)
IsSubsequence(a, b) ==
  IF a = <<>> THEN TRUE
  ELSE IF b = <<>> THEN FALSE
  ELSE IF Head(a) = Head(b) THEN IsSubsequence(Tail(a), Tail(b))
  ELSE IsSubsequence(a, Tail(b))

\* C16: the result of each filter/exclude operation is a subsequence of the
\* receiver's list (records unchanged, relative order kept), and a record
\* that occurs k times in the receiver and satisfies the predicate occurs k
\* times in the result.
C16_StableSubsequence ==
  (last.op \in FilterOps /\ ~last.threw) =>
    /\ IsSubsequence(RetList, RecvList)
    /\ \A r \in Range(RecvList) :
         Satisfies(r) => Count(RetList, r) = Count(RecvList, r)

C16_Witness ==
  /\ last.op = "filterByChainId"
  /\ last.chainId.n = 101
  /\ RecvList = <<TokenW, TokenW>>
  /\ RetList = <<TokenW, TokenW>>

\* The calls of the four tag and chain operations, over their inputs.
TagChainCalls ==
  {[NoOp EXCEPT !.op = o, !.tag = t] :
     o \in {"filterByTag", "excludeByTag"}, t \in TagInputs}
  \cup
  {[NoOp EXCEPT !.op = o, !.chainId = Number(n)] :
     o \in {"filterByChainId", "excludeByChainId"}, n \in ChainIdInputs}

\* The list a call of one of the four operations gives on a list.
Apply(call, list) ==
  CASE call.op = "filterByTag" -> TagKept(list, call.tag)
    [] call.op = "excludeByTag" -> TagExcluded(list, call.tag)
    [] call.op = "filterByChainId" -> ChainIdKept(list, call.chainId)
    [] call.op = "excludeByChainId" -> ChainIdExcluded(list, call.chainId)

\* C17: for every two operations f, g among filterByTag, excludeByTag,
\* filterByChainId and excludeByChainId, f after g gives the same list as g
\* after f (g being the call just made on the receiver).
C17_Commutes ==
  last.op \in {"filterByTag", "excludeByTag", "filterByChainId",
               "excludeByChainId"} =>
    \A f \in TagChainCalls :
      Apply(f, RetList) = Apply(last, Apply(f, RecvList))

C17_Witness ==
  /\ last.op = "excludeByTag"
  /\ last.tag = "bar"
  /\ RecvList = <<TokenW, TokenX>>
  /\ RetList = <<TokenX>>
  /\ TagKept(RetList, "foo") = <<TokenX>>

\* C18: the Static strategy's resolve() issues no network request and
\* returns exactly the bundled snapshot's tokens (empty if absent).
C18_StaticNoNetwork ==
  (strategy = "Static" /\ pc # "idle") =>
    /\ pc = "returned"
    /\ requests = <<>>
    /\ tasks = <<>>
    /\ heap[result] = FallbackTokens

C18_Witness ==
  /\ strategy = "Static"
  /\ pc = "returned"
  /\ requests = <<>>
  /\ heap[result] = <<TokenZ>>

\* C19: Provider.resolve(id) returns a container whose list is what
\* resolve() of the strategy registered under id produced; with no argument
\* it behaves as Provider.resolve(CDN), its GETs going to the CDN URLs only.
C19_ProviderWraps ==
  pc = "returned" =>
    /\ Len(containers) = 1
    /\ containers[1].tokenList = result
    /\ strategy = (IF arg = Undefined THEN "CDN" ELSE arg)
    /\ IF strategy = "Static" THEN requests = <<>>
       ELSE /\ Len(requests) = Len(repositories[strategy])
            /\ \A k \in 1..Len(requests) : requests[k] = URL(strategy, k)

C19_Witness ==
  /\ pc = "returned"
  /\ arg = Undefined
  /\ requests = <<URL("CDN", 1)>>
  /\ ListOf(1) = <<TokenX>>


\* C12: a filter call, successful or throwing, on any container, leaves every
\* existing container and the records its getList() returns as they were.
C12_FiltersLeaveOriginal ==
  [][(containers # <<>> /\ last'.op \in FilterOps)
       => /\ Len(containers') >= Len(containers)
          /\ \A c \in 1..Len(containers) :
               /\ containers'[c] = containers[c]
               /\ heap'[containers'[c].tokenList]
                    = heap[containers[c].tokenList]]_vars

\* A filter on the original has dropped a record, a filter on the derived
\* container has dropped the other, and the original still has both.
C12_Witness ==
  /\ Len(containers) = 3
  /\ last.op = "excludeByTag"
  /\ last.recv = 2
  /\ ListOf(1) = <<TokenY, TokenX>>
  /\ ListOf(2) = <<TokenX>>
  /\ ListOf(3) = <<>>

\* C13: changing, in place, the sequence the container was constructed from
\* changes nothing of what the container's getList() returns.
C13_ConstructorSeqIsolated ==
  [][(last'.op = "mutateSeq" /\ last' # last)
       => heap'[containers'[1].tokenList] = heap[containers[1].tokenList]]_vars

\* C14: changing, in place, the array getList() returned changes nothing of
\* what any container's getList() returns afterwards.
C14_GetListReadOnly ==
  [][(last'.op = "mutateReturned" /\ last' # last)
       => \A c \in 1..Len(containers) :
            heap'[containers'[c].tokenList] = heap[containers[c].tokenList]]_vars

SourceFailed(t) == t.err # "none" \/ t.status = "notok"

\* The source of task t delivered a document equal to the snapshot.
DeliveredSnapshot(t) ==
  /\ t.err = "none"
  /\ t.status = "ok"
  /\ ParseJson(t.body) = SnapshotDoc

\* Source i failed in one of the two calls and delivered a document equal to
\* the snapshot in the other.
FailedVersusSnapshot(i) ==
  \/ SourceFailed(prev.tasks[i]) /\ DeliveredSnapshot(tasks[i])
  \/ SourceFailed(tasks[i]) /\ DeliveredSnapshot(prev.tasks[i])

\* C20: two calls with the same strategy that differ only in that a source
\* failed in one and delivered a document equal to the snapshot in the other
\* return the same list; only the informational notes differ.
C20_FallbackIndistinguishable ==
  (/\ pc = "returned"
   /\ prev.pc = "returned"
   /\ strategy \in NonStatic
   /\ prev.strategy = strategy
   /\ Len(prev.tasks) = Len(tasks)
   /\ \A i \in 1..Len(tasks) :
        prev.tasks[i] = tasks[i] \/ FailedVersusSnapshot(i)
   /\ \E i \in 1..Len(tasks) : FailedVersusSnapshot(i))
    => /\ prev.list = heap[result]
       /\ prev.notes # infoLog


\* Source i answered with a document that parsed and has no tokens member.
NoTokensDocument(i) ==
  /\ tasks[i].pc = "done"
  /\ tasks[i].err = "none"
  /\ tasks[i].status = "ok"
  /\ tasks[i].body.kind = "document"
  /\ ~tasks[i].body.tokens.present

\* The concatenation of the contributions of the sources from j on, with an
\* empty sequence in the place of source i.
RECURSIVE ContributionsWithEmptyAt(_, _)
ContributionsWithEmptyAt(i, j) ==
  IF j > Len(tasks) THEN <<>>
  ELSE (IF j = i THEN <<>> ELSE Contribution(j))
         \o ContributionsWithEmptyAt(i, j + 1)

\* C21: a source whose document parsed and has no tokens member contributes
\* an empty sequence: the call returns the other sources' contributions around
\* it, and if the call rejects it is another source's null document that did it.
C21_MissingTokensIsEmpty ==
  (strategy \in NonStatic /\ pc \in {"returned", "rejected"}) =>
    \A i \in 1..Len(tasks) :
      NoTokensDocument(i) =>
        /\ pc = "returned" => heap[result] = ContributionsWithEmptyAt(i, 1)
        /\ pc = "rejected" =>
             \E j \in 1..Len(tasks) : j # i /\ tasks[j].body.kind = "null"

\* The first source's document has no tokens, the second's has one record,
\* the snapshot has another: the call returns the second's record alone.
C21_Witness ==
  /\ pc = "returned"
  /\ Len(tasks) = 2
  /\ NoTokensDocument(1)
  /\ tasks[2].err = "none"
  /\ TokensOf(tasks[2].body) = <<TokenX>>
  /\ FallbackTokens = <<TokenZ>>
  /\ heap[result] = <<TokenX>>

\* C22: a call of a non-static strategy has completed only if every source
\* has settled, with its document or with the fallback; while a source is
\* pending the call is pending.
C22_JointAwait ==
  (strategy \in NonStatic /\ pc \in {"returned", "rejected"}) =>
    /\ \A i \in 1..Len(tasks) : tasks[i].ret \in {"json", "tokenlist"}
    /\ Len(settled) = Len(tasks)

\* Two sources, the second settled first, and the call returned after both.
C22_Witness ==
  /\ strategy \in NonStatic
  /\ pc = "returned"
  /\ Len(tasks) = 2
  /\ settled = <<2, 1>>

\* C23: from the moment the call has started, the GET of every source has
\* been issued, in declaration order, whether or not any source has settled.
C23_AllRequestsIssuedFirst ==
  (strategy \in NonStatic /\ pc = "awaiting") =>
    /\ requests = repositories[strategy]
    /\ \A i \in 1..Len(tasks) : tasks[i].url = requests[i]

\* Two sources, both GETs issued and neither response received yet.
C23_Witness ==
  /\ pc = "awaiting"
  /\ Len(tasks) = 2
  /\ Len(requests) = 2
  /\ \A i \in 1..2 : tasks[i].pc = "fetch"

C25_FreshContainer ==
  (last.op \in FilterOps /\ ~last.threw) =>
    /\ last.ret # last.recv
    /\ last.ret \in 1..Len(containers)
    /\ containers[last.ret].tokenList # tokenlist.tokens
    /\ \A c \in 1..Len(containers) :
         c # last.ret => containers[c].tokenList # containers[last.ret].tokenList

\* A filter that kept every record of a receiver with two records.
C25_Witness ==
  /\ last.op = "filterByChainId"
  /\ ~last.threw
  /\ RecvList = <<TokenX, TokenW>>
  /\ RetList = RecvList

\* C26: a call of a non-static strategy that follows a completed call has
\* issued a GET to each of its sources, and what it returns is built from
\* the responses of its own tasks.
C26_NoCaching ==
  (strategy \in NonStatic /\ prev.pc # "none" /\ pc \in {"awaiting", "returned"})
    => /\ requests = repositories[strategy]
       /\ Len(tasks) = Len(repositories[strategy])
       /\ pc = "returned" => heap[result] = ContributionsFrom(1)

\* Two calls of the same strategy whose source answered differently: the
\* second call returned what its own response holds.
C26_Witness ==
  /\ prev.pc = "returned"
  /\ prev.strategy = strategy
  /\ strategy \in NonStatic
  /\ prev.list = <<TokenY, TokenX>>
  /\ pc = "returned"
  /\ tasks[1].err = "none"
  /\ heap[result] = <<TokenZ>>

\* C27: a call of a non-static strategy whose sources all settle eventually
\* completes with a sequence.
C27_EventuallyReturns ==
  (strategy \in NonStatic /\ pc = "awaiting") ~> (pc = "returned")

\* C28: the array getList() gives on the container Provider.resolve returned
\* is never the snapshot's own tokens array.
C28_NeverSnapshotItself ==
  (pc = "returned" /\ last.op = "getList" /\ last.recv = 1)
    => last.list # tokenlist.tokens

\* C29: Provider.resolve with an identifier outside the Strategy enum
\* rejects, returns no container and issues no request.
C29_UnknownStrategyRejects ==
  arg \notin Strategies \cup {Undefined, "none"} =>
    /\ pc = "rejected"
    /\ containers = <<>>
    /\ result = NoRef
    /\ requests = <<>>
    /\ tasks = <<>>

\* The call was made with the name of a member of Object.prototype.
C29_Witness ==
  /\ arg = "toString"
  /\ pc = "rejected"

====
